---------------------------- MODULE Spec2Model ----------------------------
(***************************************************************************)
(* Event Hub (src/event.js, lines 1-738): the event registration and       *)
(* moderation handlers of the App component, run by several browser        *)
(* clients against one shared Firestore event collection and the           *)
(* per-user registration collections.                                      *)
(*                                                                         *)
(* Every `await` of a handler is a point where the store operations of     *)
(* other clients and the other callbacks of the same client (its page,     *)
(* the auth callback, the snapshot listener) may interleave, so a handler  *)
(* is one action for its call and one per store call that returns.  A      *)
(* handler is a closure of the render in which it was called: it keeps     *)
(* the currentUser and userId of that render through every await.  Each    *)
(* client has one handler suspended on the store at a time; a client that  *)
(* starts a second handler while one is still awaiting behaves like a      *)
(* second client signed in as the same user, which the model covers by     *)
(* letting two clients hold the same user.                                 *)
(*                                                                         *)
(* The profile reference of the sign-in callback (line 36) is built from   *)
(* a path of five segments, artifacts/{appId}/users/{uid}/profile.  doc()  *)
(* of the Firestore SDK throws on a path with an odd number of segments,   *)
(* so the callback ends at line 36: the profile is neither read nor        *)
(* written and isAdmin keeps its initial value, false.  (The events        *)
(* collection path has the same number of segments, which collection()     *)
(* requires to be odd: whenever the subscription works, line 36 throws.)   *)
(* No client is ever admin, approve and reject are always refused, and     *)
(* no client changes the status an event was created with.                 *)
(*                                                                         *)
(* The status of an event is written only by the updateDoc call of         *)
(* handleApproveEvent and handleRejectEvent (lines 523, 537), which no     *)
(* client reaches.  In SpecOperated and SpecModerated the operator of the  *)
(* store issues that write out-of-band, as it writes the profiles.         *)
(* SpecOperated calls the handlers with any argument.  In SpecModerated    *)
(* the clients act through every control of their rendered pages, the      *)
(* Register and Cancel Registration buttons included, which a card has     *)
(* for an approved event only; its clients are a signed-in user and a      *)
(* visitor, and its forms are given one capacity.  SpecProjector gives     *)
(* the view projection, a pure function, every events list, identity and   *)
(* isAdmin flag of a bounded set.                                          *)
(*                                                                         *)
(* Spec, SpecNoEdit and SpecReliable call the handlers with any argument.  *)
(* SpecSession lets the session of a client end while its handler is in    *)
(* flight.  SpecPage calls the handlers through the controls that the      *)
(* client's page renders from its subscribed events list, with snapshots   *)
(* delivered and sessions ending at any time; SpecPageLive adds that the   *)
(* store answers and the subscription delivers.  SpecAuth runs the         *)
(* sign-in callback of FirebaseProvider, the logout and out-of-band        *)
(* changes of the stored profiles with the handlers that read isAdmin.     *)
(***************************************************************************)
EXTENDS Naturals, Sequences, FiniteSets

VARIABLES
    events,         \* the store's event collection: id -> document or NoDoc
    nextId,         \* the next id addDoc assigns (ids are never reused)
    registrations,  \* the registration documents: <<userId, eventId>>
    currentUser,    \* per client: the signed-in user, or NoUser
    isAdmin,        \* per client: the isAdmin flag of the Firebase context
    pc,             \* per client: the store call its handler is suspended on
    op,             \* per client: the locals of the suspended handler
    modal,          \* per client: showCreateModal and eventToEdit
    confirm,        \* per client: showConfirmationModal and confirmAction
    signingOut,     \* per client: handleLogout is suspended on signOut
    message,        \* the last showMessage call: the client and the text shown
    trip,           \* history: the last register, while only its cancel has followed
    scen,           \* history: progress of the capacity-1 scenario of two registrants
    view,           \* per client: the events list the last snapshot delivered
    profile,        \* the store's profile documents: user -> "none", "user" or "admin"
    filter          \* per client: filterDate and filterLocation

vars == << events, nextId, registrations, currentUser, isAdmin, pc, op,
           modal, confirm, signingOut, message, trip, scen, view, profile,
           filter >>

\* what the event handlers never assign: the Firebase context, the stored
\* profiles, the subscription's events list, the filter inputs and the
\* pending signOut
session == << currentUser, isAdmin, view, profile, filter, signingOut >>

-----------------------------------------------------------------------------
(* Bounds of the model *)

MaxCapacity == 2

Clients == {1, 2}
EventIds == {1}
Users == {"alice", "bob"}
Admins == {"alice"}     \* the users whose stored profile carries isAdmin = true
NoUser == "null"

\* the dates the forms are given: one before the present day, one after it
PastDate == "2020-01-01"
FutureDate == "2030-01-01"
Dates == {PastDate, FutureDate}
NoDate == ""

\* strings that are searched are sequences of characters
Venue == << "H", "a" >>
NoText == << >>
FilterDates == {NoDate, PastDate}
FilterLocations == {NoText, << "h", "A" >>, << "b" >>}
NoFilter == [date |-> NoDate, location |-> NoText]

NoDoc == [exists |-> FALSE, capacity |-> 0, attendees |-> << >>,
          status |-> "none", creatorId |-> NoUser, date |-> NoDate,
          location |-> NoText]
NoOp == [kind |-> "none", eventId |-> 0, userId |-> NoUser,
         currentAttendees |-> << >>, capacity |-> 0, date |-> NoDate]
NoModal == [kind |-> "none", eventId |-> 0]
NoConfirm == [kind |-> "none", eventId |-> 0, userId |-> NoUser]
NoTrip == [client |-> 0, userId |-> NoUser, eventId |-> 0, before |-> << >>,
           hadRecord |-> FALSE, done |-> FALSE]
NoScen == [stage |-> 0, eventId |-> 0, a |-> 0, ua |-> NoUser, b |-> 0,
           ub |-> NoUser]


-----------------------------------------------------------------------------
(* Array helpers of the handlers *)

\* a plausible slip: only the first attendee is compared
includesFirst(arr, x) == arr # << >> /\ arr[1] = x

\* a plausible slip: a search that starts at the second entry
includesAfterFirst(arr, x) == \E i \in 2..Len(arr) : arr[i] = x

\* currentAttendees.includes(userId)
includes(arr, x) == \E i \in 1..Len(arr) : arr[i] = x

\* a plausible slip: the filter's test inverted (=== for !==)
RECURSIVE filterKeep(_, _)
filterKeep(arr, x) ==
    IF arr = << >> THEN << >>
    ELSE IF Head(arr) # x THEN filterKeep(Tail(arr), x)
         ELSE << Head(arr) >> \o filterKeep(Tail(arr), x)

\* currentAttendees.filter(id => id !== userId)
RECURSIVE filterOut(_, _)
filterOut(arr, x) ==
    IF arr = << >> THEN << >>
    ELSE IF Head(arr) = x THEN filterOut(Tail(arr), x)
         ELSE << Head(arr) >> \o filterOut(Tail(arr), x)

\* [...currentAttendees, userId]
appendAttendee(arr, x) == Append(arr, x)

\* plausible slips: the capacity check off by one, either way
isFullStrict(attendees, capacity) == Len(attendees) > capacity
isFullEarly(attendees, capacity) == Len(attendees) + 1 >= capacity

\* currentAttendees.length >= eventData.capacity
isFull(attendees, capacity) == Len(attendees) >= capacity

\* eventSnap.exists()
exists(e) == e \in EventIds /\ events[e].exists


Say(c, m) == [client |-> c, text |-> m]
Goto(c, l) == [pc EXCEPT ![c] = l]
Finish(c) == /\ pc' = Goto(c, "idle")
             /\ op' = [op EXCEPT ![c] = NoOp]


\* String.prototype.toLowerCase, on the letters the model uses
toLowerCase(s) ==
    [i \in DOMAIN s |-> IF s[i] = "H" THEN "h"
                        ELSE IF s[i] = "A" THEN "a"
                        ELSE IF s[i] = "B" THEN "b"
                        ELSE s[i]]

\* String.prototype.includes
includesString(s, t) ==
    /\ Len(t) <= Len(s)
    /\ \E i \in 1..(Len(s) + 1) :
          /\ i + Len(t) <= Len(s) + 1
          /\ SubSeq(s, i, i + Len(t) - 1) = t

\* new Date(`${event.date}T${event.time}`) < new Date()
isPastEvent(date) == date = PastDate

-----------------------------------------------------------------------------
(* History variables.  They record what the handlers did and are read by   *)
(* no handler.                                                             *)
(*                                                                         *)
(* trip: set when the read of client c's register passes the checks, to    *)
(* the attendee list and the Registration record's existence at that       *)
(* read; kept while c's register completes with success and c's cancel of  *)
(* the same event for the same user runs, and marked done when that        *)
(* cancel reports success; dropped by every other step of any client.      *)

TripNext(c, tag, e) ==
    IF tag = "regGetDoc" /\ pc'[c] = "reg_update"
    THEN [client |-> c, userId |-> op[c].userId, eventId |-> e,
          before |-> events[e].attendees,
          hadRecord |-> << op[c].userId, e >> \in registrations,
          done |-> FALSE]
    ELSE IF /\ trip.client = c
            /\ trip.eventId = e
            /\ ~trip.done
            /\ \/ tag \in {"regUpdate", "canGetDoc", "canUpdate"}
                  /\ pc'[c] # "idle"
               \/ tag = "regSetDoc" /\ message' = Say(c, "Registered")
               \/ tag = "cancelClick" /\ currentUser[c] = trip.userId
               \/ tag = "confirmCancel" /\ confirm[c].userId = trip.userId
    THEN trip
    ELSE IF /\ trip.client = c
            /\ trip.eventId = e
            /\ ~trip.done
            /\ tag = "canDeleteDoc"
            /\ message' = Say(c, "Cancelled")
    THEN [trip EXCEPT !.done = TRUE]
    ELSE NoTrip

(* scen: the scenario of the specification on an event of capacity 1      *)
(* with no attendee: client a registers, client b (another      *)
(* user) registers, a cancels, b registers, with no other step in between. *)
(* stage counts the calls of the scenario that have returned.              *)

Fresh(c, e) ==
    /\ exists(e)
    /\ events[e].capacity = 1
    /\ events[e].attendees = << >>
    /\ currentUser[c] # NoUser
    /\ \A d \in Clients : pc[d] = "idle"

Returned(c, n) == IF pc'[c] = "idle" THEN n + 1 ELSE n

ScenNext(c, tag, e) ==
    IF /\ scen.stage = 0 /\ scen.a = c /\ scen.eventId = e
       /\ tag \in {"regGetDoc", "regUpdate", "regSetDoc"}
    THEN [scen EXCEPT !.stage = Returned(c, 0)]
    ELSE IF /\ scen.stage = 1 /\ scen.a # 0 /\ scen.b = 0 /\ scen.eventId = e
            /\ tag = "register"
            /\ c # scen.a
            /\ currentUser[c] \notin {NoUser, scen.ua}
    THEN [scen EXCEPT !.b = c, !.ub = currentUser[c]]
    ELSE IF /\ scen.stage = 1 /\ scen.b = c /\ scen.eventId = e
            /\ tag \in {"regGetDoc", "regUpdate", "regSetDoc"}
    THEN [scen EXCEPT !.stage = Returned(c, 1)]
    ELSE IF /\ scen.stage = 2 /\ scen.a = c /\ scen.eventId = e
            /\ tag = "cancelClick"
            /\ currentUser[c] = scen.ua
    THEN scen
    ELSE IF /\ scen.stage = 2 /\ scen.a = c /\ scen.eventId = e
            /\ tag \in {"confirmCancel", "canGetDoc", "canUpdate", "canDeleteDoc"}
            /\ tag = "confirmCancel" => confirm[c].userId = scen.ua
    THEN [scen EXCEPT !.stage = Returned(c, 2)]
    ELSE IF /\ scen.stage = 3 /\ scen.b = c /\ scen.eventId = e
            /\ tag = "register"
            /\ currentUser[c] = scen.ub
    THEN scen
    ELSE IF /\ scen.stage = 3 /\ scen.b = c /\ scen.eventId = e
            /\ tag \in {"regGetDoc", "regUpdate", "regSetDoc"}
    THEN [scen EXCEPT !.stage = Returned(c, 3)]
    ELSE IF tag = "register" /\ Fresh(c, e)
    THEN [stage |-> 0, eventId |-> e, a |-> c, ua |-> currentUser[c],
          b |-> 0, ub |-> NoUser]
    ELSE NoScen

Observe(c, tag, e) ==
    /\ trip' = TripNext(c, tag, e)
    /\ scen' = ScenNext(c, tag, e)

-----------------------------------------------------------------------------
(* The state after the clients have mounted and the authentication         *)
(* bootstrap has run: an empty event collection, and per client a          *)
(* signed-in user (or none).  The sign-in callback has set currentUser     *)
(* and ended at line 36, so isAdmin is false on every client and the only  *)
(* stored profiles are the ones written out-of-band.  Two clients may hold *)
(* the same user.  Mounted is that state but for currentUser.              *)

Mounted ==
    /\ events = [e \in EventIds |-> NoDoc]
    /\ nextId = 1
    /\ registrations = {}
    /\ isAdmin = [c \in Clients |-> FALSE]
    /\ pc = [c \in Clients |-> "idle"]
    /\ op = [c \in Clients |-> NoOp]
    /\ modal = [c \in Clients |-> NoModal]
    /\ confirm = [c \in Clients |-> NoConfirm]
    /\ signingOut = [c \in Clients |-> FALSE]
    /\ message = [client |-> 0, text |-> ""]
    /\ trip = NoTrip
    /\ scen = NoScen
    /\ view = [c \in Clients |-> events]
    /\ profile = [u \in Users |-> IF u \in Admins THEN "admin" ELSE "none"]
    /\ filter = [c \in Clients |-> NoFilter]

\* the sign-ins the clients start from: two users, one user on both
\* clients, one client signed out, both signed out (every other sign-in
\* is one of these with the clients or the users renamed)
SignedIn ==
    { f \in [Clients -> Users \cup {NoUser}] :
        f[1] = "alice" \/ \A c \in Clients : f[c] = NoUser }

Init == Mounted /\ currentUser \in SignedIn

-----------------------------------------------------------------------------
(* Store calls.  updateDoc rejects a write to a document that does not     *)
(* exist; deleteDoc and setDoc do not.  Any call may also be rejected by   *)
(* the store (ok = FALSE): the handler's catch block then runs.            *)

\* a plausible slip: a write that creates the document when it is missing
\* (setDoc with merge in place of updateDoc)
updateSucceedsAlways(e, ok) == ok

\* updateDoc succeeds only on a document that exists
updateSucceeds(e, ok) == ok /\ exists(e)

\* a plausible slip: the new list merged into the stored one (arrayUnion)
\* in place of replacing it
updateAttendeesMerge(e, list) ==
    LET old == events[e].attendees
        new == SelectSeq(list, LAMBDA x : \A i \in 1..Len(old) : old[i] # x)
    IN  [events EXCEPT ![e] = [@ EXCEPT !.attendees = old \o new]]

\* updateDoc(eventRef, { attendees: list })
updateAttendees(e, list) ==
    [events EXCEPT ![e] = [@ EXCEPT !.attendees = list]]

\* a plausible slip: the document replaced by the given fields (setDoc in
\* place of updateDoc), which drops every field that is not given
updateDocReplace(e, fields) ==
    [events EXCEPT ![e] =
        [f \in DOMAIN NoDoc |-> IF f \in DOMAIN fields THEN fields[f]
                                ELSE IF f = "exists" THEN TRUE
                                ELSE NoDoc[f]]]

\* updateDoc(eventRef, fields): the given fields are written, every other
\* field of the document stays
updateDoc(e, fields) ==
    [events EXCEPT ![e] =
        [f \in DOMAIN @ |-> IF f \in DOMAIN fields THEN fields[f] ELSE @[f]]]

\* updateDoc(eventRef, { status: s })
updateStatus(e, s) == updateDoc(e, [status |-> s])

\* a plausible slip: an edit that sends the event back to moderation
updateFieldsPending(e, capacity, date) ==
    updateDoc(e, [capacity |-> capacity, date |-> date, status |-> "pending"])

\* updateDoc(eventRef, eventData): the form's fields; capacity and date are
\* the ones that vary in the model
updateFields(e, capacity, date) ==
    updateDoc(e, [capacity |-> capacity, date |-> date])

\* addDoc(collection, {...eventData, creatorId, creatorEmail, status, attendees})
newEvent(capacity, date, creator) ==
    [exists |-> TRUE, capacity |-> capacity, attendees |-> << >>,
     status |-> "pending", creatorId |-> creator, date |-> date,
     location |-> Venue]

\* deleteDoc(eventRef)
deleteEvent(e) == [events EXCEPT ![e] = NoDoc]

\* setDoc(doc(users/{userId}/registrations, eventId), {...})
setRegistration(u, e) == registrations \cup { << u, e >> }

\* deleteDoc(doc(users/{userId}/registrations, eventId))
deleteRegistration(u, e) == registrations \ { << u, e >> }

-----------------------------------------------------------------------------
(* The create/edit modal.  "Create New Event" opens it with eventToEdit =  *)
(* null, the Edit button of a card with the card's event.  Its submit      *)
(* (EventModal.handleSubmit) calls handleSaveEvent, which tests            *)
(* currentUser and issues the store call, and then closes the modal        *)
(* (onClose): the page is live again while the store call is pending.      *)
(* When the call commits, the handler's continuation closes whatever       *)
(* modal is open then (lines 394-395).                                     *)

\* onClick of Create New Event: setEventToEdit(null); setShowCreateModal(true)
openCreateModal(c) ==
    /\ modal' = [modal EXCEPT ![c] = [kind |-> "create", eventId |-> 0]]
    /\ UNCHANGED << events, nextId, registrations, session, pc, op, confirm,
                    message >>
    /\ Observe(c, "openCreate", 0)

\* onEdit of a card: setEventToEdit(event); setShowCreateModal(true)
onEdit(c, e) ==
    /\ modal' = [modal EXCEPT ![c] = [kind |-> "edit", eventId |-> e]]
    /\ UNCHANGED << events, nextId, registrations, session, pc, op, confirm,
                    message >>
    /\ Observe(c, "openEdit", e)

\* onClose of the modal: setShowCreateModal(false); setEventToEdit(null)
closeModal(c) ==
    /\ modal[c] # NoModal
    /\ modal' = [modal EXCEPT ![c] = NoModal]
    /\ UNCHANGED << events, nextId, registrations, session, pc, op, confirm,
                    message >>
    /\ Observe(c, "closeModal", modal[c].eventId)

(* handleSaveEvent, reached through EventModal.handleSubmit, which rejects *)
(* a capacity that is not positive.  The handler keeps the currentUser,    *)
(* userId and eventToEdit of the render in which the form was submitted.   *)
(* addDoc names the new document on the client, when it is called.         *)

\* submit of the modal opened by Create New Event
handleSaveEventCreate(c, capacity, date) ==
    /\ modal[c].kind = "create"
    /\ capacity > 0
    /\ modal' = [modal EXCEPT ![c] = NoModal]
    /\ UNCHANGED << events, registrations, session, confirm >>
    /\ IF currentUser[c] = NoUser
       THEN /\ message' = Say(c, "MustLogin")
            /\ UNCHANGED << pc, op, nextId >>
       ELSE /\ pc[c] = "idle"
            /\ nextId \in EventIds
            /\ pc' = Goto(c, "save_addDoc")
            /\ op' = [op EXCEPT ![c] =
                         [NoOp EXCEPT !.kind = "create", !.eventId = nextId,
                                      !.userId = currentUser[c],
                                      !.capacity = capacity, !.date = date]]
            /\ nextId' = nextId + 1
            /\ UNCHANGED message
    /\ Observe(c, "create", 0)

\* await addDoc(...) returns; showMessage; setEventToEdit(null);
\* setShowCreateModal(false)
SaveAddDoc(c, ok) ==
    /\ pc[c] = "save_addDoc"
    /\ Finish(c)
    /\ UNCHANGED << nextId, registrations, session, confirm >>
    /\ IF ok
       THEN /\ events' = [events EXCEPT ![op[c].eventId] =
                             newEvent(op[c].capacity, op[c].date, op[c].userId)]
            /\ message' = Say(c, "Created")
            /\ modal' = [modal EXCEPT ![c] = NoModal]
       ELSE /\ message' = Say(c, "ErrorSaving")
            /\ UNCHANGED << events, modal >>
    /\ Observe(c, "saveAddDoc", op[c].eventId)

\* submit of the modal opened by the Edit button of event e
handleSaveEventEdit(c, e, capacity, date) ==
    /\ modal[c].kind = "edit"
    /\ modal[c].eventId = e
    /\ capacity > 0
    /\ modal' = [modal EXCEPT ![c] = NoModal]
    /\ UNCHANGED << events, nextId, registrations, session, confirm >>
    /\ IF currentUser[c] = NoUser
       THEN /\ message' = Say(c, "MustLogin")
            /\ UNCHANGED << pc, op >>
       ELSE /\ pc[c] = "idle"
            /\ pc' = Goto(c, "save_updateDoc")
            /\ op' = [op EXCEPT ![c] =
                         [NoOp EXCEPT !.kind = "edit", !.eventId = e,
                                      !.userId = currentUser[c],
                                      !.capacity = capacity, !.date = date]]
            /\ UNCHANGED message
    /\ Observe(c, "edit", e)

\* await updateDoc(doc(events, eventToEdit.id), eventData) returns;
\* showMessage; setEventToEdit(null); setShowCreateModal(false)
SaveUpdateDoc(c, ok) ==
    /\ pc[c] = "save_updateDoc"
    /\ Finish(c)
    /\ UNCHANGED << nextId, registrations, session, confirm >>
    /\ IF updateSucceeds(op[c].eventId, ok)
       THEN /\ events' = updateFields(op[c].eventId, op[c].capacity, op[c].date)
            /\ message' = Say(c, "Updated")
            /\ modal' = [modal EXCEPT ![c] = NoModal]
       ELSE /\ message' = Say(c, "ErrorSaving")
            /\ UNCHANGED << events, modal >>
    /\ Observe(c, "saveUpdateDoc", op[c].eventId)

-----------------------------------------------------------------------------
(* handleDeleteEvent and the confirmation modal.  The handler stores a     *)
(* closure (confirmAction) and shows the modal; Yes runs the closure,      *)
(* which awaits deleteDoc and, in its finally block, closes the            *)
(* confirmation modal that is open then.                                   *)

handleDeleteEvent(c, e) ==
    /\ confirm' = [confirm EXCEPT ![c] =
                      [kind |-> "delete", eventId |-> e, userId |-> NoUser]]
    /\ UNCHANGED << events, nextId, registrations, session, pc, op, modal,
                    message >>
    /\ Observe(c, "deleteClick", e)

\* Yes of the confirmation modal: deleteDoc(doc(events, eventId)) is issued
ConfirmDelete(c) ==
    /\ confirm[c].kind = "delete"
    /\ pc[c] = "idle"
    /\ pc' = Goto(c, "del_deleteDoc")
    /\ op' = [op EXCEPT ![c] =
                 [NoOp EXCEPT !.kind = "delete", !.eventId = confirm[c].eventId]]
    /\ UNCHANGED << events, nextId, registrations, session, modal, confirm,
                    message >>
    /\ Observe(c, "confirmDelete", confirm[c].eventId)

\* await deleteDoc(...) returns; showMessage; finally: the modal is closed
DeleteEventDoc(c, ok) ==
    /\ pc[c] = "del_deleteDoc"
    /\ Finish(c)
    /\ confirm' = [confirm EXCEPT ![c] = NoConfirm]
    /\ UNCHANGED << nextId, registrations, session, modal >>
    /\ IF ok
       THEN /\ events' = deleteEvent(op[c].eventId)
            /\ message' = Say(c, "Deleted")
       ELSE /\ message' = Say(c, "ErrorDeleting")
            /\ UNCHANGED events
    /\ Observe(c, "deleteDoc", op[c].eventId)

\* ConfirmationModal onCancel: setShowConfirmationModal(false);
\* setConfirmAction(null)
DismissConfirmation(c) ==
    /\ confirm[c] # NoConfirm
    /\ confirm' = [confirm EXCEPT ![c] = NoConfirm]
    /\ UNCHANGED << events, nextId, registrations, session, pc, op, modal,
                    message >>
    /\ Observe(c, "dismiss", confirm[c].eventId)

-----------------------------------------------------------------------------
(* handleRegister.  The call tests currentUser and issues getDoc; the      *)
(* handler keeps the userId of the render in which it was called through   *)
(* every await, whatever the auth callback does to the client meanwhile.   *)

handleRegister(c, e) ==
    /\ UNCHANGED << events, nextId, registrations, session, modal, confirm >>
    /\ IF currentUser[c] = NoUser
       THEN /\ message' = Say(c, "MustLogin")
            /\ UNCHANGED << pc, op >>
       ELSE /\ pc[c] = "idle"
            /\ pc' = Goto(c, "reg_getDoc")
            /\ op' = [op EXCEPT ![c] =
                         [NoOp EXCEPT !.kind = "register", !.eventId = e,
                                      !.userId = currentUser[c]]]
            /\ UNCHANGED message
    /\ Observe(c, "register", e)

\* await getDoc(eventRef) returns: the checks on the document read, and
\* updateDoc(eventRef, { attendees: [...currentAttendees, userId] }) issued
RegisterGetDoc(c, ok) ==
    /\ pc[c] = "reg_getDoc"
    /\ UNCHANGED << events, nextId, registrations, session, modal, confirm >>
    /\ LET e == op[c].eventId IN
       IF ~ok
       THEN /\ message' = Say(c, "ErrorRegistering")
            /\ Finish(c)
       ELSE IF ~exists(e)
       THEN /\ message' = Say(c, "EventNotFound")
            /\ Finish(c)
       ELSE IF includes(events[e].attendees, op[c].userId)
       THEN /\ message' = Say(c, "AlreadyRegistered")
            /\ Finish(c)
       ELSE IF isFull(events[e].attendees, events[e].capacity)
       THEN /\ message' = Say(c, "EventFull")
            /\ Finish(c)
       ELSE /\ pc' = Goto(c, "reg_update")
            /\ op' = [op EXCEPT ![c].currentAttendees = events[e].attendees]
            /\ UNCHANGED message
    /\ Observe(c, "regGetDoc", op[c].eventId)

\* await updateDoc(...) returns; setDoc(registration record) is issued
RegisterUpdateDoc(c, ok) ==
    /\ pc[c] = "reg_update"
    /\ UNCHANGED << nextId, registrations, session, modal, confirm >>
    /\ IF updateSucceeds(op[c].eventId, ok)
       THEN /\ events' = updateAttendees(op[c].eventId,
                            appendAttendee(op[c].currentAttendees, op[c].userId))
            /\ pc' = Goto(c, "reg_setDoc")
            /\ UNCHANGED << op, message >>
       ELSE /\ message' = Say(c, "ErrorRegistering")
            /\ Finish(c)
            /\ UNCHANGED events
    /\ Observe(c, "regUpdate", op[c].eventId)

\* a plausible slip: a catch block that compensates, writing the list
\* the handler read back to the event
RegisterSetDocRollback(c, ok) ==
    /\ pc[c] = "reg_setDoc"
    /\ Finish(c)
    /\ UNCHANGED << nextId, session, modal, confirm >>
    /\ IF ok
       THEN /\ registrations' = setRegistration(op[c].userId, op[c].eventId)
            /\ message' = Say(c, "Registered")
            /\ UNCHANGED events
       ELSE /\ message' = Say(c, "ErrorRegistering")
            /\ events' = IF exists(op[c].eventId)
                         THEN updateAttendees(op[c].eventId, op[c].currentAttendees)
                         ELSE events
            /\ UNCHANGED registrations
    /\ Observe(c, "regSetDoc", op[c].eventId)

\* await setDoc(registration record) returns; showMessage
RegisterSetDoc(c, ok) ==
    /\ pc[c] = "reg_setDoc"
    /\ Finish(c)
    /\ UNCHANGED << events, nextId, session, modal, confirm >>
    /\ IF ok
       THEN /\ registrations' = setRegistration(op[c].userId, op[c].eventId)
            /\ message' = Say(c, "Registered")
       ELSE /\ message' = Say(c, "ErrorRegistering")
            /\ UNCHANGED registrations
    /\ Observe(c, "regSetDoc", op[c].eventId)

-----------------------------------------------------------------------------
(* handleCancelRegistration.  The click stores a closure over the          *)
(* currentUser and userId of its render and shows the confirmation modal.  *)
(* Yes runs the closure: the test of (the captured) currentUser, getDoc,   *)
(* the checks, updateDoc and deleteDoc; its finally block closes the       *)
(* confirmation modal that is open when the closure ends.                  *)

handleCancelRegistration(c, e) ==
    /\ confirm' = [confirm EXCEPT ![c] =
                      [kind |-> "cancel", eventId |-> e, userId |-> currentUser[c]]]
    /\ UNCHANGED << events, nextId, registrations, session, pc, op, modal,
                    message >>
    /\ Observe(c, "cancelClick", e)

\* Yes of the confirmation modal: the closure starts
ConfirmCancel(c) ==
    /\ confirm[c].kind = "cancel"
    /\ UNCHANGED << events, nextId, registrations, session, modal >>
    /\ IF confirm[c].userId = NoUser
       THEN /\ message' = Say(c, "MustLogin")
            /\ confirm' = [confirm EXCEPT ![c] = NoConfirm]
            /\ UNCHANGED << pc, op >>
       ELSE /\ pc[c] = "idle"
            /\ pc' = Goto(c, "can_getDoc")
            /\ op' = [op EXCEPT ![c] =
                         [NoOp EXCEPT !.kind = "cancel",
                                      !.eventId = confirm[c].eventId,
                                      !.userId = confirm[c].userId]]
            /\ UNCHANGED << confirm, message >>
    /\ Observe(c, "confirmCancel", confirm[c].eventId)

\* await getDoc(eventRef) returns: the checks on the document read, and
\* updateDoc(eventRef, { attendees: updatedAttendees }) issued
CancelGetDoc(c, ok) ==
    /\ pc[c] = "can_getDoc"
    /\ UNCHANGED << events, nextId, registrations, session, modal >>
    /\ LET e == op[c].eventId
           closes == /\ Finish(c)
                     /\ confirm' = [confirm EXCEPT ![c] = NoConfirm]
       IN
       IF ~ok
       THEN /\ message' = Say(c, "ErrorCancelling")
            /\ closes
       ELSE IF ~exists(e)
       THEN /\ message' = Say(c, "EventNotFound")
            /\ closes
       ELSE IF Len(filterOut(events[e].attendees, op[c].userId))
                  = Len(events[e].attendees)
       THEN /\ message' = Say(c, "NotRegistered")
            /\ closes
       ELSE /\ pc' = Goto(c, "can_update")
            /\ op' = [op EXCEPT ![c].currentAttendees = events[e].attendees]
            /\ UNCHANGED << confirm, message >>
    /\ Observe(c, "canGetDoc", op[c].eventId)

\* await updateDoc(...) returns; deleteDoc(registration record) is issued
CancelUpdateDoc(c, ok) ==
    /\ pc[c] = "can_update"
    /\ UNCHANGED << nextId, registrations, session, modal >>
    /\ IF updateSucceeds(op[c].eventId, ok)
       THEN /\ events' = updateAttendees(op[c].eventId,
                            filterOut(op[c].currentAttendees, op[c].userId))
            /\ pc' = Goto(c, "can_deleteDoc")
            /\ UNCHANGED << op, confirm, message >>
       ELSE /\ message' = Say(c, "ErrorCancelling")
            /\ Finish(c)
            /\ confirm' = [confirm EXCEPT ![c] = NoConfirm]
            /\ UNCHANGED events
    /\ Observe(c, "canUpdate", op[c].eventId)

\* a plausible slip: a catch block that compensates, writing the list
\* the handler read back to the event
CancelDeleteDocRollback(c, ok) ==
    /\ pc[c] = "can_deleteDoc"
    /\ Finish(c)
    /\ confirm' = [confirm EXCEPT ![c] = NoConfirm]
    /\ UNCHANGED << nextId, session, modal >>
    /\ IF ok
       THEN /\ registrations' = deleteRegistration(op[c].userId, op[c].eventId)
            /\ message' = Say(c, "Cancelled")
            /\ UNCHANGED events
       ELSE /\ message' = Say(c, "ErrorCancelling")
            /\ events' = IF exists(op[c].eventId)
                         THEN updateAttendees(op[c].eventId, op[c].currentAttendees)
                         ELSE events
            /\ UNCHANGED registrations
    /\ Observe(c, "canDeleteDoc", op[c].eventId)

\* await deleteDoc(registration record) returns; showMessage; finally: the
\* modal is closed
CancelDeleteDoc(c, ok) ==
    /\ pc[c] = "can_deleteDoc"
    /\ Finish(c)
    /\ confirm' = [confirm EXCEPT ![c] = NoConfirm]
    /\ UNCHANGED << events, nextId, session, modal >>
    /\ IF ok
       THEN /\ registrations' = deleteRegistration(op[c].userId, op[c].eventId)
            /\ message' = Say(c, "Cancelled")
       ELSE /\ message' = Say(c, "ErrorCancelling")
            /\ UNCHANGED registrations
    /\ Observe(c, "canDeleteDoc", op[c].eventId)

-----------------------------------------------------------------------------
(* handleApproveEvent / handleRejectEvent: the buttons of the admin tab.   *)
(* The call tests the isAdmin of its render; an admin's call issues        *)
(* updateDoc(eventRef, { status }).                                        *)

\* a plausible slip: the handler without its isAdmin test
ModerateUnchecked(c, e, kind) ==
    /\ pc[c] = "idle"
    /\ pc' = Goto(c, "mod_updateDoc")
    /\ op' = [op EXCEPT ![c] = [NoOp EXCEPT !.kind = kind, !.eventId = e]]
    /\ UNCHANGED << events, nextId, registrations, session, modal, confirm,
                    message >>
    /\ Observe(c, "moderate", e)

Moderate(c, e, kind) ==
    /\ UNCHANGED << events, nextId, registrations, session, modal, confirm >>
    /\ IF ~isAdmin[c]
       THEN /\ message' = Say(c, "NotAuthorized")
            /\ UNCHANGED << pc, op >>
       ELSE /\ pc[c] = "idle"
            /\ pc' = Goto(c, "mod_updateDoc")
            /\ op' = [op EXCEPT ![c] = [NoOp EXCEPT !.kind = kind, !.eventId = e]]
            /\ UNCHANGED message
    /\ Observe(c, "moderate", e)

handleApproveEvent(c, e) == Moderate(c, e, "approve")

handleRejectEvent(c, e) == Moderate(c, e, "reject")

\* await updateDoc(eventRef, { status }) returns; showMessage.  No client
\* is ever admin, so no handler is ever suspended here: the step is part
\* of no specification, and its write reaches the store as the operator's
\* (OutOfBandStatus)
ModerateUpdateDoc(c, ok) ==
    /\ pc[c] = "mod_updateDoc"
    /\ Finish(c)
    /\ UNCHANGED << nextId, registrations, session, modal, confirm >>
    /\ IF updateSucceeds(op[c].eventId, ok)
       THEN /\ events' = updateStatus(op[c].eventId,
                            IF op[c].kind = "approve" THEN "approved" ELSE "rejected")
            /\ message' = Say(c, IF op[c].kind = "approve"
                                 THEN "Approved" ELSE "Rejected")
       ELSE /\ message' = Say(c, IF op[c].kind = "approve"
                                 THEN "ErrorApproving" ELSE "ErrorRejecting")
            /\ UNCHANGED events
    /\ Observe(c, "modUpdateDoc", op[c].eventId)

-----------------------------------------------------------------------------
(* FirebaseProvider: the onAuthStateChanged callback.  With a user it      *)
(* sets currentUser and userId and then builds the profile reference,      *)
(* where doc() throws (line 36): the callback ends there, before getDoc,   *)
(* setDoc and setIsAdmin.  With null it clears currentUser and isAdmin.    *)
(* The callback runs whenever the auth service reports, also while a       *)
(* handler of the client is suspended or a modal is open: the handler in   *)
(* flight keeps the user it was called with (op[c].userId).                *)

\* a plausible slip: a callback that creates the missing profile from an
\* admin template
onAuthStateChangedAsAdmin(c, u) ==
    /\ currentUser' = [currentUser EXCEPT ![c] = u]
    /\ isAdmin' = [isAdmin EXCEPT ![c] = FALSE]
    /\ profile' = IF u # NoUser /\ profile[u] = "none"
                  THEN [profile EXCEPT ![u] = "admin"]
                  ELSE profile
    /\ UNCHANGED << events, nextId, registrations, pc, op, modal, confirm,
                    signingOut, message, view, filter >>
    /\ Observe(c, "auth", 0)

\* onAuthStateChanged(user): the auth service reports user u, or no user
\* (u = NoUser)
onAuthStateChanged(c, u) ==
    /\ currentUser' = [currentUser EXCEPT ![c] = u]
    /\ isAdmin' = IF u = NoUser THEN [isAdmin EXCEPT ![c] = FALSE] ELSE isAdmin
    /\ UNCHANGED << events, nextId, registrations, pc, op, modal, confirm,
                    signingOut, message, view, profile, filter >>
    /\ Observe(c, "auth", 0)

\* handleLogout: signOut(auth) is called, whatever handler is suspended; a
\* client has one signOut pending at a time
handleLogout(c) ==
    /\ ~signingOut[c]
    /\ signingOut' = [signingOut EXCEPT ![c] = TRUE]
    /\ UNCHANGED << events, nextId, registrations, currentUser, isAdmin, pc, op,
                    modal, confirm, message, view, profile, filter >>
    /\ Observe(c, "logout", 0)

\* await signOut(auth) returns: the session has ended and the callback has
\* run with null, or signOut was rejected; showMessage
LogoutSignOut(c, ok) ==
    /\ signingOut[c]
    /\ signingOut' = [signingOut EXCEPT ![c] = FALSE]
    /\ UNCHANGED << events, nextId, registrations, pc, op, modal, confirm,
                    view, profile, filter >>
    /\ IF ok
       THEN /\ message' = Say(c, "LoggedOut")
            /\ currentUser' = [currentUser EXCEPT ![c] = NoUser]
            /\ isAdmin' = [isAdmin EXCEPT ![c] = FALSE]
       ELSE /\ message' = Say(c, "ErrorLoggingOut")
            /\ UNCHANGED << currentUser, isAdmin >>
    /\ Observe(c, "signOut", 0)

\* the operator of the store writes a profile out-of-band
OutOfBandProfile(u, role) ==
    /\ role \in {"user", "admin"}
    /\ profile[u] # role
    /\ profile' = [profile EXCEPT ![u] = role]
    /\ UNCHANGED << events, nextId, registrations, currentUser, isAdmin, pc, op,
                    modal, confirm, signingOut, message, trip, scen, view,
                    filter >>

\* the operator of the store writes the status of an event out-of-band:
\* updateDoc(eventRef, { status }), the write of lines 523 and 537, which
\* does not read the stored status and fails on a missing document
OutOfBandStatus(e, s) ==
    /\ s \in {"approved", "rejected"}
    /\ exists(e)
    /\ events[e].status # s
    /\ events' = updateStatus(e, s)
    /\ UNCHANGED << nextId, registrations, currentUser, isAdmin, pc, op,
                    modal, confirm, signingOut, message, trip, scen, view,
                    profile, filter >>

AuthStep(c, OK) ==
    \/ \E u \in Users \cup {NoUser} : onAuthStateChanged(c, u)
    \/ handleLogout(c)
    \/ \E ok \in OK : LogoutSignOut(c, ok)

\* the handlers of creation and moderation, called on a client whose page
\* no modal covers; D is the set of dates the form is given
ModerationStep(c, OK, D) ==
    \/ modal[c] = NoModal /\ openCreateModal(c)
    \/ \E cap \in 0..MaxCapacity, d \in D : handleSaveEventCreate(c, cap, d)
    \/ \E ok \in OK : SaveAddDoc(c, ok)
    \/ \E e \in EventIds : modal[c] = NoModal /\ handleApproveEvent(c, e)
    \/ \E e \in EventIds : modal[c] = NoModal /\ handleRejectEvent(c, e)

-----------------------------------------------------------------------------
(* The events subscription.  The SDK hands the listener the client's       *)
(* local view of the collection: the store's documents with the client's   *)
(* own pending write applied (latency compensation); setEvents replaces    *)
(* the client's list with it.  When the write commits or is rejected the   *)
(* local view is the store's again.                                        *)

\* the event collection as client c's SDK holds it
localView(c) ==
    LET e == op[c].eventId IN
    IF pc[c] = "save_addDoc"
    THEN [events EXCEPT ![e] = newEvent(op[c].capacity, op[c].date, op[c].userId)]
    ELSE IF pc[c] = "del_deleteDoc" THEN deleteEvent(e)
    ELSE IF ~exists(e) THEN events
    ELSE IF pc[c] = "save_updateDoc"
         THEN updateFields(e, op[c].capacity, op[c].date)
    ELSE IF pc[c] = "reg_update"
         THEN updateAttendees(e, appendAttendee(op[c].currentAttendees, op[c].userId))
    ELSE IF pc[c] = "can_update"
         THEN updateAttendees(e, filterOut(op[c].currentAttendees, op[c].userId))
    ELSE IF pc[c] = "mod_updateDoc"
         THEN updateStatus(e, IF op[c].kind = "approve" THEN "approved" ELSE "rejected")
    ELSE events

\* a plausible slip: the snapshot's documents merged into the list, so
\* that a deleted event stays in it
onSnapshotMerge(c) ==
    /\ view[c] # localView(c)
    /\ view' = [view EXCEPT ![c] =
                   [e \in EventIds |-> IF localView(c)[e].exists
                                       THEN localView(c)[e] ELSE @[e]]]
    /\ UNCHANGED << events, nextId, registrations, currentUser, isAdmin, pc, op,
                    modal, confirm, signingOut, message, trip, scen, profile,
                    filter >>

\* the listener of onSnapshot: setEvents(snapshot.docs.map(...))
onSnapshot(c) ==
    /\ view[c] # localView(c)
    /\ view' = [view EXCEPT ![c] = localView(c)]
    /\ UNCHANGED << events, nextId, registrations, currentUser, isAdmin, pc, op,
                    modal, confirm, signingOut, message, trip, scen, profile,
                    filter >>

-----------------------------------------------------------------------------
(* The filter inputs, the view projection and the buttons of a card        *)

\* onChange of the date input: setFilterDate(e.target.value)
setFilterDate(c, date) ==
    /\ filter[c].date # date
    /\ filter' = [filter EXCEPT ![c].date = date]
    /\ UNCHANGED << events, nextId, registrations, currentUser, isAdmin, pc, op,
                    modal, confirm, signingOut, message, trip, scen, view,
                    profile >>

\* onChange of the location input: setFilterLocation(e.target.value)
setFilterLocation(c, text) ==
    /\ filter[c].location # text
    /\ filter' = [filter EXCEPT ![c].location = text]
    /\ UNCHANGED << events, nextId, registrations, currentUser, isAdmin, pc, op,
                    modal, confirm, signingOut, message, trip, scen, view,
                    profile >>

Tabs == {"all", "myEvents", "myRegistrations", "adminPending"}

\* filteredEvents: the events list under the date and location filters
filteredEvents(c) ==
    { e \in EventIds :
        /\ view[c][e].exists
        /\ IF filter[c].date # NoDate THEN view[c][e].date = filter[c].date ELSE TRUE
        /\ IF filter[c].location # NoText
           THEN includesString(toLowerCase(view[c][e].location),
                               toLowerCase(filter[c].location))
           ELSE TRUE }

\* a plausible slip: the pending tab without the isAdmin test
displayedEventsNoAdminTest(c, activeTab) ==
    { e \in filteredEvents(c) :
        IF activeTab = "all" THEN view[c][e].status = "approved"
        ELSE IF activeTab = "myEvents" THEN view[c][e].creatorId = currentUser[c]
        ELSE IF activeTab = "myRegistrations"
             THEN includes(view[c][e].attendees, currentUser[c])
        ELSE IF activeTab = "adminPending" THEN view[c][e].status = "pending"
        ELSE FALSE }

\* displayedEvents: the filtered list under the test of the active tab
displayedEvents(c, activeTab) ==
    { e \in filteredEvents(c) :
        IF activeTab = "all" THEN view[c][e].status = "approved"
        ELSE IF activeTab = "myEvents" THEN view[c][e].creatorId = currentUser[c]
        ELSE IF activeTab = "myRegistrations"
             THEN includes(view[c][e].attendees, currentUser[c])
        ELSE IF activeTab = "adminPending"
             THEN isAdmin[c] /\ view[c][e].status = "pending"
        ELSE FALSE }

\* the card of event e is rendered outside the admin tab
inUserTab(c, e) ==
    \E activeTab \in Tabs \ {"adminPending"} : e \in displayedEvents(c, activeTab)

\* the card of event e is rendered in the admin tab (isAdminView)
inAdminTab(c, e) == e \in displayedEvents(c, "adminPending")

\* EventCard: isCreator={event.creatorId === userId}, on the listed event
isCreator(c, e) == view[c][e].creatorId = currentUser[c]

\* EventCard: the button labelled Full, rendered disabled in place of
\* Register for an approved event that is not past, that the user is not
\* registered for and whose isFull is true (lines 97, 143-160)
shownFull(c, e) ==
    /\ inUserTab(c, e)
    /\ view[c][e].status = "approved"
    /\ ~isPastEvent(view[c][e].date)
    /\ ~includes(view[c][e].attendees, currentUser[c])
    /\ isFull(view[c][e].attendees, view[c][e].capacity)

\* EventCard: Register, rendered for an approved event that is not past
\* and that the user is not registered for, and enabled unless isFull
showsRegister(c, e) ==
    /\ inUserTab(c, e)
    /\ view[c][e].status = "approved"
    /\ ~isPastEvent(view[c][e].date)
    /\ ~includes(view[c][e].attendees, currentUser[c])
    /\ ~isFull(view[c][e].attendees, view[c][e].capacity)

\* EventCard: Cancel Registration
showsCancel(c, e) ==
    /\ inUserTab(c, e)
    /\ view[c][e].status = "approved"
    /\ ~isPastEvent(view[c][e].date)
    /\ includes(view[c][e].attendees, currentUser[c])

\* EventCard: Edit and Delete of the creator
showsEdit(c, e) == inUserTab(c, e) /\ isCreator(c, e)

\* EventCard: Delete, of the creator or in the admin tab
showsDelete(c, e) == showsEdit(c, e) \/ inAdminTab(c, e)

\* EventCard: Approve and Reject
showsModerate(c, e) == inAdminTab(c, e) /\ view[c][e].status = "pending"

\* neither the create/edit modal nor the confirmation modal is open: both
\* are overlays that cover the page (fixed inset-0)
Uncovered(c) == modal[c] = NoModal /\ confirm[c] = NoConfirm

(* One step of client c through its rendered page: a control that the      *)
(* page shows is used, a store call of the client returns, the auth        *)
(* service reports the end of the session, or a snapshot is delivered.     *)
(* A card is rendered for an event of the displayed list; the controls of  *)
(* the page are used while no modal covers it.  While no event is          *)
(* moderated no page renders Register or Cancel Registration, and no page  *)
(* ever renders Approve or Reject (no client is admin), so the page has    *)
(* no step through them.  The filter inputs are left empty: a filter only  *)
(* takes cards off the page.  OK is the set of outcomes of a store call,   *)
(* K the set of capacities and D the set of dates the forms are given.     *)

PageStep(c, OK, K, D) ==
    \/ Uncovered(c) /\ openCreateModal(c)
    \/ closeModal(c)
    \/ \E cap \in K, d \in D : handleSaveEventCreate(c, cap, d)
    \/ \E ok \in OK : SaveAddDoc(c, ok)
    \/ \E e \in EventIds : Uncovered(c) /\ showsEdit(c, e) /\ onEdit(c, e)
    \/ \E e \in EventIds, cap \in K, d \in D :
          handleSaveEventEdit(c, e, cap, d)
    \/ \E ok \in OK : SaveUpdateDoc(c, ok)
    \/ \E e \in EventIds : Uncovered(c) /\ showsDelete(c, e) /\ handleDeleteEvent(c, e)
    \/ ConfirmDelete(c)
    \/ \E ok \in OK : DeleteEventDoc(c, ok)
    \/ DismissConfirmation(c)
    \/ Uncovered(c) /\ handleLogout(c)
    \/ \E ok \in OK : LogoutSignOut(c, ok)
    \/ onAuthStateChanged(c, NoUser)
    \/ onSnapshot(c)

-----------------------------------------------------------------------------

\* no handler of client c is suspended and no modal covers its page
Quiet(c) == pc[c] = "idle" /\ Uncovered(c)

(* One step of client c.  OK is the set of outcomes a store call may have: *)
(* BOOLEAN when the store may reject a call, {TRUE} when it never does.    *)
(* D is the set of dates the form is given.  A handler is called, with any *)
(* argument, on a quiet client: every order in which the store calls of    *)
(* the clients reach the store is covered, since each client has one       *)
(* handler suspended at a time.                                            *)

ClientStep(c, OK, D) ==
    \/ Quiet(c) /\ openCreateModal(c)
    \/ closeModal(c)
    \/ \E cap \in 0..MaxCapacity, d \in D : handleSaveEventCreate(c, cap, d)
    \/ \E ok \in OK : SaveAddDoc(c, ok)
    \/ \E e \in EventIds : Quiet(c) /\ handleDeleteEvent(c, e)
    \/ ConfirmDelete(c)
    \/ \E ok \in OK : DeleteEventDoc(c, ok)
    \/ DismissConfirmation(c)
    \/ \E e \in EventIds : Quiet(c) /\ handleRegister(c, e)
    \/ \E ok \in OK : RegisterGetDoc(c, ok)
    \/ \E ok \in OK : RegisterUpdateDoc(c, ok)
    \/ \E ok \in OK : RegisterSetDoc(c, ok)
    \/ \E e \in EventIds : Quiet(c) /\ handleCancelRegistration(c, e)
    \/ ConfirmCancel(c)
    \/ \E ok \in OK : CancelGetDoc(c, ok)
    \/ \E ok \in OK : CancelUpdateDoc(c, ok)
    \/ \E ok \in OK : CancelDeleteDoc(c, ok)
    \/ \E e \in EventIds : Quiet(c) /\ handleApproveEvent(c, e)
    \/ \E e \in EventIds : Quiet(c) /\ handleRejectEvent(c, e)

EditStep(c, OK, D) ==
    \/ \E e \in EventIds : Quiet(c) /\ onEdit(c, e)
    \/ \E e \in EventIds, cap \in 0..MaxCapacity, d \in D :
          handleSaveEventEdit(c, e, cap, d)
    \/ \E ok \in OK : SaveUpdateDoc(c, ok)

\* the date given to the forms where the page is not rendered
FormDates == {FutureDate}

Next ==
    \E c \in Clients : ClientStep(c, BOOLEAN, FormDates) \/ EditStep(c, BOOLEAN, FormDates)

Spec == Init /\ [][Next]_vars

\* no event is edited after its creation
NextNoEdit == \E c \in Clients : ClientStep(c, BOOLEAN, FormDates)

SpecNoEdit == Init /\ [][NextNoEdit]_vars

\* the store rejects no call (an update of a deleted document still fails)
NextReliable ==
    \E c \in Clients : ClientStep(c, {TRUE}, FormDates) \/ EditStep(c, {TRUE}, FormDates)

SpecReliable == Init /\ [][NextReliable]_vars

\* creation, registration and cancellation on clients whose session may end
\* at any time, a handler in flight included; the store rejects no call
SessionStep(c) ==
    \/ Quiet(c) /\ openCreateModal(c)
    \/ \E cap \in 0..MaxCapacity, d \in FormDates : handleSaveEventCreate(c, cap, d)
    \/ SaveAddDoc(c, TRUE)
    \/ \E e \in EventIds : Quiet(c) /\ handleRegister(c, e)
    \/ RegisterGetDoc(c, TRUE)
    \/ RegisterUpdateDoc(c, TRUE)
    \/ RegisterSetDoc(c, TRUE)
    \/ \E e \in EventIds : Quiet(c) /\ handleCancelRegistration(c, e)
    \/ ConfirmCancel(c)
    \/ CancelGetDoc(c, TRUE)
    \/ CancelUpdateDoc(c, TRUE)
    \/ CancelDeleteDoc(c, TRUE)
    \/ onAuthStateChanged(c, NoUser)

NextSession == \E c \in Clients : SessionStep(c)

SpecSession == Init /\ [][NextSession]_vars

\* the clients act through their pages, on the events list their
\* subscription delivered; two users are signed in
InitPage ==
    /\ Mounted
    /\ currentUser = [c \in Clients |-> IF c = 1 THEN "alice" ELSE "bob"]

NextPage == \E c \in Clients : PageStep(c, {TRUE}, 0..MaxCapacity, FormDates)

SpecPage == InitPage /\ [][NextPage]_vars

\* the store answers every call, and an open subscription delivers: a
\* local view that differs from the client's list is eventually handed to
\* the client
StoreReplies(c) ==
    SaveAddDoc(c, TRUE) \/ SaveUpdateDoc(c, TRUE) \/ DeleteEventDoc(c, TRUE)

SpecPageLive ==
    /\ SpecPage
    /\ \A c \in Clients : WF_vars(onSnapshot(c)) /\ WF_vars(StoreReplies(c))

\* the operator of the store moderates the events
Moderation ==
    \E e \in EventIds, s \in {"approved", "rejected"} : OutOfBandStatus(e, s)

\* the handlers called with any argument, on events of any status, while
\* the operator moderates; the store rejects no call
NextOperated == NextReliable \/ Moderation

SpecOperated == Init /\ [][NextOperated]_vars

\* the capacity the forms are given where the pages render Register
ListedCapacities == {1}

\* one step of client c through its rendered page while events are
\* moderated: the steps of PageStep and, on the cards of the approved
\* events, the Register button with the continuations of handleRegister
ModeratedStep(c) ==
    \/ PageStep(c, {TRUE}, ListedCapacities, FormDates)
    \/ \E e \in EventIds : Uncovered(c) /\ showsRegister(c, e) /\ handleRegister(c, e)
    \/ RegisterGetDoc(c, TRUE)
    \/ RegisterUpdateDoc(c, TRUE)
    \/ RegisterSetDoc(c, TRUE)

\* the Cancel Registration button of a card, with the confirmation and the
\* continuations of the closure
ModeratedCancelStep(c) ==
    \/ \E e \in EventIds :
          Uncovered(c) /\ showsCancel(c, e) /\ handleCancelRegistration(c, e)
    \/ ConfirmCancel(c)
    \/ CancelGetDoc(c, TRUE)
    \/ CancelUpdateDoc(c, TRUE)
    \/ CancelDeleteDoc(c, TRUE)

NextModerated ==
    \/ \E c \in Clients : ModeratedStep(c) \/ ModeratedCancelStep(c)
    \/ Moderation

\* the pages of a signed-in user and of a visitor (a client that is signed
\* out), one of the sign-ins of Init
InitModerated ==
    /\ Mounted
    /\ currentUser = [c \in Clients |-> IF c = 1 THEN "alice" ELSE NoUser]

SpecModerated == InitModerated /\ [][NextModerated]_vars

\* the view projection as a function of its inputs: the events list, the
\* identity and the isAdmin flag of one client, the observer, are any of a
\* bounded set, and the filter inputs are set
Observer == 1

\* the attendee lists: no user twice
AttendeeLists ==
    { << >> } \cup { << u >> : u \in Users }
              \cup ({ << u, v >> : u, v \in Users }
                       \ { << u, u >> : u \in Users })

\* the documents an events list may hold
EventDocs ==
    [exists : {TRUE}, capacity : 1..MaxCapacity, attendees : AttendeeLists,
     status : {"pending", "approved", "rejected"}, creatorId : Users,
     date : Dates, location : {Venue}]

InitProjector ==
    /\ events \in [EventIds -> EventDocs \cup {NoDoc}]
    /\ nextId = 1 + Cardinality({ e \in EventIds : events[e].exists })
    /\ registrations = {}
    /\ \E u \in Users \cup {NoUser} :
          currentUser = [c \in Clients |-> IF c = Observer THEN u ELSE NoUser]
    /\ \E flag \in BOOLEAN :
          isAdmin = [c \in Clients |->
                        c = Observer /\ flag /\ currentUser[c] # NoUser]
    /\ pc = [c \in Clients |-> "idle"]
    /\ op = [c \in Clients |-> NoOp]
    /\ modal = [c \in Clients |-> NoModal]
    /\ confirm = [c \in Clients |-> NoConfirm]
    /\ signingOut = [c \in Clients |-> FALSE]
    /\ message = [client |-> 0, text |-> ""]
    /\ trip = NoTrip
    /\ scen = NoScen
    /\ view = [c \in Clients |-> events]
    /\ profile = [u \in Users |-> IF u \in Admins THEN "admin" ELSE "none"]
    /\ filter = [c \in Clients |-> NoFilter]

NextProjector ==
    \/ \E d \in FilterDates : setFilterDate(Observer, d)
    \/ \E t \in FilterLocations : setFilterLocation(Observer, t)

SpecProjector == InitProjector /\ [][NextProjector]_vars

\* sign-in, sign-out and out-of-band profile changes, with the handlers
\* that read isAdmin
NextAuth ==
    \/ \E c \in Clients : AuthStep(c, BOOLEAN) \/ ModerationStep(c, BOOLEAN, FormDates)
    \/ \E u \in Users, role \in {"user", "admin"} : OutOfBandProfile(u, role)

\* no client is signed in yet: only the admins have a profile
InitAuth ==
    /\ Mounted
    /\ currentUser = [c \in Clients |-> NoUser]

SpecAuth == InitAuth /\ [][NextAuth]_vars

-----------------------------------------------------------------------------
(* Shorthands of the properties *)

attendeesOf(e) == events[e].attendees

Member(list, x) == \E i \in DOMAIN list : list[i] = x

AllIdle == \A c \in Clients : pc[c] = "idle"

\* the step of client c writes nothing to the store and ends its handler
NoWrite(c) ==
    /\ events' = events
    /\ registrations' = registrations
    /\ pc'[c] = "idle"

RegisteringAt(c, e, l) ==
    /\ pc[c] = l
    /\ op[c].kind = "register"
    /\ op[c].eventId = e

\* a register or a cancel of client c is in flight
InFlight(c) ==
    pc[c] \in {"reg_getDoc", "reg_update", "reg_setDoc",
               "can_getDoc", "can_update", "can_deleteDoc"}

-----------------------------------------------------------------------------
(* C1: with no capacity edit, every stored event has at most `capacity`    *)
(* attendees, in every committed state of every interleaving of create,    *)
(* register, cancel, approve, reject and delete.                           *)

C1_CapacityInvariant ==
    \A e \in EventIds :
        exists(e) => Len(attendeesOf(e)) <= events[e].capacity

\* two registrants raced for the last slot of an event and both wrote
C1_Witness ==
    \E e \in EventIds : \E c, d \in Clients :
        /\ exists(e)
        /\ c # d
        /\ op[c].userId # op[d].userId
        /\ RegisteringAt(c, e, "reg_setDoc")
        /\ RegisteringAt(d, e, "reg_setDoc")
        /\ op[c].currentAttendees = op[d].currentAttendees
        /\ Len(attendeesOf(e)) = events[e].capacity

-----------------------------------------------------------------------------
(* C2 (as the spec states it): when two registrants have both read the     *)
(* attendee list of an event with exactly one free slot before either      *)
(* wrote, and both have committed their update, the committed list holds   *)
(* more entries than the capacity.                                         *)

BothWrote(c, d, e) ==
    /\ c # d
    /\ op[c].userId # op[d].userId
    /\ exists(e)
    /\ RegisteringAt(c, e, "reg_setDoc")
    /\ RegisteringAt(d, e, "reg_setDoc")
    /\ op[c].currentAttendees = op[d].currentAttendees
    /\ Len(op[c].currentAttendees) + 1 = events[e].capacity

C2_RaceOverfills ==
    \A e \in EventIds : \A c, d \in Clients :
        BothWrote(c, d, e) => Len(attendeesOf(e)) > events[e].capacity

(* C2 (amended): client c writes its attendee list while d, which read the *)
(* same list of an event with one free slot, has already written its own.  *)
(* c's update replaces d's: the committed list is the list both read plus  *)
(* c alone, d is no longer in it and it holds no more entries than the     *)
(* capacity.  Both then go on to write their Registration record: once a   *)
(* racer's record write succeeds it reports success, whether or not it is  *)
(* still in the list.                                                      *)

SecondWrite(c, d, e) ==
    /\ c # d
    /\ op[c].userId # op[d].userId
    /\ exists(e)
    /\ RegisteringAt(c, e, "reg_update")
    /\ RegisteringAt(d, e, "reg_setDoc")
    /\ op[c].currentAttendees = op[d].currentAttendees
    /\ Len(op[c].currentAttendees) + 1 = events[e].capacity
    /\ attendeesOf(e) = Append(op[d].currentAttendees, op[d].userId)
    /\ pc'[c] = "reg_setDoc"

C2_RaceOverwritesStep ==
    \A e \in EventIds : \A c, d \in Clients :
        /\ SecondWrite(c, d, e) =>
              /\ events'[e].attendees = Append(op[c].currentAttendees, op[c].userId)
              /\ ~Member(events'[e].attendees, op[d].userId)
              /\ Len(events'[e].attendees) = events'[e].capacity
              /\ pc'[d] = "reg_setDoc"
        /\ (pc[c] = "reg_setDoc" /\ pc'[c] = "idle"
              /\ << op[c].userId, op[c].eventId >> \in registrations'
              /\ registrations' # registrations)
             => message' = Say(c, "Registered")

C2_RaceOverwrites == [][C2_RaceOverwritesStep]_vars

\* both racers have reported success and hold a Registration record, and
\* the event's single slot lists only the later writer
C2_Witness ==
    \E e \in EventIds : \E c, d \in Clients :
        /\ c # d
        /\ exists(e)
        /\ events[e].capacity = 1
        /\ pc[c] = "idle" /\ pc[d] = "idle"
        /\ message = Say(c, "Registered")
        /\ << currentUser[c], e >> \in registrations
        /\ << currentUser[d], e >> \in registrations
        /\ attendeesOf(e) = << currentUser[c] >>
        /\ currentUser[c] # currentUser[d]

-----------------------------------------------------------------------------
(* C3: with a store that rejects nothing and no other step interleaved,    *)
(* register by a signed-in user on an existing event that does not list    *)
(* the user and has a free slot reads the event for that user, goes on to  *)
(* its writes, leaves the attendee                                         *)
(* list equal to the list read plus the user, creates the Registration     *)
(* record and reports success; and on a capacity-1 event the              *)
(* calls A registers, B registers, A cancels, B registers end with         *)
(* success and <<A>>, EventFull and <<A>>, success and << >>, success and  *)
(* <<B>>.                                                                  *)

\* the event that client c's register is about to read has a free slot
\* and does not list the user of the call
Eligible(c) ==
    /\ exists(op[c].eventId)
    /\ ~Member(attendeesOf(op[c].eventId), op[c].userId)
    /\ Len(attendeesOf(op[c].eventId)) < events[op[c].eventId].capacity

C3_RegisterStep ==
    \A c \in Clients :
        /\ \A e \in EventIds :
              (handleRegister(c, e) /\ currentUser[c] # NoUser)
                 => /\ pc'[c] = "reg_getDoc"
                    /\ op'[c].eventId = e
                    /\ op'[c].userId = currentUser[c]
        /\ (RegisterGetDoc(c, TRUE) /\ Eligible(c))
              => /\ pc'[c] = "reg_update"
                 /\ op'[c].eventId = op[c].eventId
                 /\ op'[c].userId = op[c].userId
                 /\ op'[c].currentAttendees = attendeesOf(op[c].eventId)
        /\ LET e == op[c].eventId
               u == op[c].userId
               read == op[c].currentAttendees
           IN  /\ (/\ pc[c] = "reg_update" /\ pc'[c] # "reg_update"
                   /\ exists(e) /\ attendeesOf(e) = read)
                     => /\ pc'[c] = "reg_setDoc"
                        /\ events'[e].attendees = Append(read, u)
               /\ (/\ pc[c] = "reg_setDoc" /\ pc'[c] # "reg_setDoc"
                   /\ exists(e) /\ attendeesOf(e) = Append(read, u))
                     => /\ message' = Say(c, "Registered")
                        /\ << u, e >> \in registrations'
                        /\ events'[e].attendees = Append(read, u)

C3_Scenario ==
    (scen.a # 0 /\ AllIdle) =>
        LET e == scen.eventId
            A == scen.ua
        IN  /\ scen.stage # 0
            /\ scen.stage = 1 =>
                  /\ message = Say(scen.a, "Registered")
                  /\ attendeesOf(e) = << A >>
                  /\ << A, e >> \in registrations
            /\ scen.stage = 2 =>
                  /\ message = Say(scen.b, "EventFull")
                  /\ attendeesOf(e) = << A >>
            /\ scen.stage = 3 =>
                  /\ message = Say(scen.a, "Cancelled")
                  /\ attendeesOf(e) = << >>
                  /\ << A, e >> \notin registrations
            /\ scen.stage = 4 =>
                  /\ message = Say(scen.b, "Registered")
                  /\ attendeesOf(e) = << scen.ub >>
                  /\ << scen.ub, e >> \in registrations

C3_RegisterContract == [][C3_RegisterStep /\ C3_Scenario']_vars

\* the four calls of the scenario have returned
C3_Witness == scen.stage = 4 /\ AllIdle

-----------------------------------------------------------------------------
(* C4: a register call whose read finds the user in the attendee list      *)
(* reports AlreadyRegistered and writes nothing.                           *)

C4_AlreadyRegisteredStep ==
    \A c \in Clients :
        (/\ RegisterGetDoc(c, TRUE)
         /\ exists(op[c].eventId)
         /\ Member(attendeesOf(op[c].eventId), op[c].userId))
          => (message' = Say(c, "AlreadyRegistered") /\ NoWrite(c))

C4_AlreadyRegistered == [][C4_AlreadyRegisteredStep]_vars

C4_Witness ==
    \E c \in Clients : \E e \in EventIds :
        /\ message = Say(c, "AlreadyRegistered")
        /\ exists(e)
        /\ Member(attendeesOf(e), currentUser[c])
        /\ Len(attendeesOf(e)) < events[e].capacity
        /\ pc[c] = "idle"

-----------------------------------------------------------------------------
(* C5: a cancel whose read finds the user absent from the attendee list    *)
(* reports NotRegistered and writes nothing.                               *)

C5_NotRegisteredStep ==
    \A c \in Clients :
        (/\ CancelGetDoc(c, TRUE)
         /\ exists(op[c].eventId)
         /\ ~Member(attendeesOf(op[c].eventId), op[c].userId))
          => (message' = Say(c, "NotRegistered") /\ NoWrite(c))

C5_NotRegistered == [][C5_NotRegisteredStep]_vars

C5_Witness ==
    \E c \in Clients : \E e \in EventIds :
        /\ message = Say(c, "NotRegistered")
        /\ exists(e)
        /\ attendeesOf(e) # << >>
        /\ ~Member(attendeesOf(e), currentUser[c])
        /\ pc[c] = "idle"

-----------------------------------------------------------------------------
(* C6 (as claimed): a register call whose read finds the attendee count at *)
(* or above the capacity reports EventFull and writes nothing.             *)

C6_FullStepAnyUser ==
    \A c \in Clients :
        (/\ RegisterGetDoc(c, TRUE)
         /\ exists(op[c].eventId)
         /\ Len(attendeesOf(op[c].eventId)) >= events[op[c].eventId].capacity)
          => (message' = Say(c, "EventFull") /\ NoWrite(c))

C6_EventFullAnyUser == [][C6_FullStepAnyUser]_vars

(* C6 (amended): such a call by a user who is not in the attendee list     *)
(* reports EventFull, and by a user who is in it AlreadyRegistered; in     *)
(* both cases nothing is written.                                          *)

C6_FullStep ==
    \A c \in Clients :
        (/\ RegisterGetDoc(c, TRUE)
         /\ exists(op[c].eventId)
         /\ Len(attendeesOf(op[c].eventId)) >= events[op[c].eventId].capacity)
          => /\ NoWrite(c)
             /\ message' = Say(c, IF Member(attendeesOf(op[c].eventId), op[c].userId)
                                  THEN "AlreadyRegistered" ELSE "EventFull")

C6_EventFull == [][C6_FullStep]_vars

C6_Witness ==
    \E c \in Clients : \E e \in EventIds :
        /\ message = Say(c, "EventFull")
        /\ exists(e)
        /\ Len(attendeesOf(e)) = events[e].capacity
        /\ ~Member(attendeesOf(e), currentUser[c])
        /\ pc[c] = "idle"

-----------------------------------------------------------------------------
(* C7 (as claimed): register and cancel on an event that is absent report  *)
(* NotFound and write nothing, both when the read finds it absent and when *)
(* it is deleted between the read and the attendee-list update.            *)

ReadAbsentStep(c) ==
    /\ (RegisterGetDoc(c, TRUE) /\ ~exists(op[c].eventId))
          => (message' = Say(c, "EventNotFound") /\ NoWrite(c))
    /\ (CancelGetDoc(c, TRUE) /\ ~exists(op[c].eventId))
          => (message' = Say(c, "EventNotFound") /\ NoWrite(c))

\* client c's attendee-list update reaches the store after the event's deletion
DeletedBeforeWrite(c) ==
    /\ pc[c] \in {"reg_update", "can_update"}
    /\ ~exists(op[c].eventId)
    /\ pc'[c] # pc[c]

C7_AbsentReportsNotFoundStep ==
    \A c \in Clients :
        /\ ReadAbsentStep(c)
        /\ DeletedBeforeWrite(c)
              => (message' = Say(c, "EventNotFound") /\ NoWrite(c))

C7_AbsentReportsNotFound == [][C7_AbsentReportsNotFoundStep]_vars

(* C7 (amended): a read that finds the event absent reports NotFound; an   *)
(* update that reaches the store after the deletion is rejected and the    *)
(* handler reports the store's error through its catch block, not          *)
(* NotFound.  In both cases nothing is written: the event is not           *)
(* recreated and no Registration record is created or deleted.             *)

C7_AbsentWritesNothingStep ==
    \A c \in Clients :
        /\ ReadAbsentStep(c)
        /\ DeletedBeforeWrite(c)
              => /\ NoWrite(c)
                 /\ message' = Say(c, IF pc[c] = "reg_update"
                                      THEN "ErrorRegistering" ELSE "ErrorCancelling")

C7_AbsentWritesNothing == [][C7_AbsentWritesNothingStep]_vars

\* a register lost the race against the event's deletion
C7_Witness ==
    \E c \in Clients : \E e \in EventIds :
        /\ message = Say(c, "ErrorRegistering")
        /\ pc[c] = "idle"
        /\ e < nextId
        /\ ~exists(e)
        /\ \A u \in Users : << u, e >> \notin registrations

-----------------------------------------------------------------------------
(* C8: after a successful register and a successful cancel of *)
(* the same event by the same user, with no other step in between, the     *)
(* attendee list and the existence of the Registration record are what     *)
(* they were before the register.                                          *)

C8_RoundTripRestoresRecord ==
    trip.done =>
        /\ exists(trip.eventId)
        /\ attendeesOf(trip.eventId) = trip.before
        /\ (<< trip.userId, trip.eventId >> \in registrations) = trip.hadRecord

-----------------------------------------------------------------------------
(* C9: with no register or cancel in flight and no store call rejected,    *)
(* a Registration record (event, user) exists exactly when the user is in  *)
(* the event's attendee list.                                              *)

C9_RecordIffAttendee ==
    (\A c \in Clients : ~InFlight(c)) =>
        \A e \in EventIds : \A u \in Users :
            exists(e) => ((<< u, e >> \in registrations) <=> Member(attendeesOf(e), u))

-----------------------------------------------------------------------------
(* C10: no Registration record refers to a deleted event.                  *)

C10_NoRecordOfDeletedEvent ==
    \A e \in EventIds : \A u \in Users :
        (e < nextId /\ ~exists(e)) => << u, e >> \notin registrations

-----------------------------------------------------------------------------
(* C11: an event is created with status pending and no attendee, and no    *)
(* step (an edit, a register, a cancel, an approve, a reject, the          *)
(* operator's moderation) takes the stored status of an event from         *)
(* approved or rejected back to pending.                                   *)

C11_StatusStep ==
    \A e \in EventIds :
        /\ (~exists(e) /\ events'[e].exists)
              => /\ events'[e].status = "pending"
                 /\ events'[e].attendees = << >>
        /\ (exists(e) /\ events[e].status \in {"approved", "rejected"}
               /\ events'[e].exists)
              => events'[e].status \in {"approved", "rejected"}

C11_StatusNeverBackToPending == [][C11_StatusStep]_vars

\* an event that was created, approved and registered for has been
\* edited, and is approved still
C11_Witness ==
    \E c \in Clients : \E e \in EventIds :
        /\ message = Say(c, "Updated")
        /\ exists(e)
        /\ events[e].status = "approved"
        /\ attendeesOf(e) # << >>

-----------------------------------------------------------------------------
(* C13: approve and reject called by an actor whose stored profile does    *)
(* not have isAdmin = true fail with Unauthorized, write nothing and leave *)
(* the event's status as it is.                                            *)

ModerateCalled(c, e) == handleApproveEvent(c, e) \/ handleRejectEvent(c, e)

Refused(c) ==
    /\ message' = Say(c, "NotAuthorized")
    /\ events' = events
    /\ registrations' = registrations

C13_NonAdminStep ==
    \A c \in Clients : \A e \in EventIds :
        ( /\ currentUser[c] # NoUser
          /\ profile[currentUser[c]] # "admin"
          /\ ModerateCalled(c, e) )
        => Refused(c)

C13_NonAdminRefused == [][C13_NonAdminStep]_vars

\* an actor without admin rights has called approve or reject on a pending
\* event and has been refused
C13_Witness ==
    \E c \in Clients : \E e \in EventIds :
        /\ currentUser[c] # NoUser
        /\ profile[currentUser[c]] # "admin"
        /\ message = Say(c, "NotAuthorized")
        /\ exists(e)
        /\ events[e].status = "pending"

-----------------------------------------------------------------------------
(* C14: approve and reject are authorised against the stored profile of    *)
(* the actor as it is when the handler is called: the call is refused      *)
(* with Unauthorized, and writes nothing, exactly when that profile does   *)
(* not carry isAdmin = true, whatever the profile was when the user        *)
(* signed in.                                                              *)

C14_ProfileAtCallStep ==
    \A c \in Clients : \A e \in EventIds :
        (currentUser[c] # NoUser /\ ModerateCalled(c, e))
           => (Refused(c) <=> profile[currentUser[c]] # "admin")

-----------------------------------------------------------------------------
(* C19: no step of the application writes isAdmin = true into a profile:   *)
(* the application writes a profile at most to create, with isAdmin =      *)
(* false, the profile of a user who signs in and has none; every other     *)
(* change of a profile is made out-of-band.                                *)

C19_ProfileStep ==
    \A u \in Users :
        (profile'[u] # profile[u])
        => \/ OutOfBandProfile(u, profile'[u])
           \/ /\ profile[u] = "none"
              /\ profile'[u] = "user"
              /\ \E c \in Clients : currentUser[c] # u /\ currentUser'[c] = u

C19_NeverGrantsAdmin == [][C19_ProfileStep]_vars

\* a user without a profile has signed in, and no profile with isAdmin =
\* true has appeared
C19_Witness ==
    \E c \in Clients : \E u \in Users \ Admins :
        /\ currentUser[c] = u
        /\ ~isAdmin[c]
        /\ profile[u] = "none"

-----------------------------------------------------------------------------
(* C15: an identity is added to an event's attendee list only while the    *)
(* event's stored status is approved: every step that adds an identity to  *)
(* the stored list starts in a state where the stored status is approved,  *)
(* whenever the operator's approve and reject reach the store.             *)

C15_AddStep ==
    \A e \in EventIds : \A u \in Users :
        ( /\ exists(e)
          /\ events'[e].exists
          /\ ~Member(events[e].attendees, u)
          /\ Member(events'[e].attendees, u) )
        => events[e].status = "approved"

C15_AddedOnlyWhileApproved == [][C15_AddStep]_vars

-----------------------------------------------------------------------------
(* C16: when the second write of register or cancel (the creation or the   *)
(* deletion of the Registration record) is rejected after the attendee     *)
(* list has been updated, the caller is not told of a success and gets an  *)
(* outcome that reports the partial write, that is, one it can tell from   *)
(* the outcome of a call whose attendee-list update was rejected.          *)

C16_SecondWriteStep ==
    \A c \in Clients :
        /\ RegisterSetDoc(c, FALSE)
              => /\ message'.client = c
                 /\ message'.text \notin {"Registered", "ErrorRegistering"}
        /\ CancelDeleteDoc(c, FALSE)
              => /\ message'.client = c
                 /\ message'.text \notin {"Cancelled", "ErrorCancelling"}

C16_PartialWriteReported == [][C16_SecondWriteStep]_vars

-----------------------------------------------------------------------------
(* C17: the view projection shows, in tab all, exactly the approved        *)
(* events; in the tab of created events, exactly those whose creatorId is  *)
(* the user; in the tab of registrations, exactly those whose attendee     *)
(* list holds the user; in the admin tab, exactly the pending events when  *)
(* the client is admin and no event at all when it is not; each of them    *)
(* among the events of the list that pass the date and location filters.   *)

listed(c) == { e \in EventIds : view[c][e].exists }

\* the letter of a character, whatever its case
Letter(ch) ==
    CASE ch \in {"H", "h"} -> "h"
      [] ch \in {"A", "a"} -> "a"
      [] ch \in {"B", "b"} -> "b"
      [] OTHER -> ch

\* text t is found in text s, the case of the letters ignored
Occurs(t, s) ==
    \E k \in 0..(Len(s) - Len(t)) :
        \A i \in 1..Len(t) : Letter(s[k + i]) = Letter(t[i])

\* event e of the list passes the filters that are set
Passes(c, e) ==
    /\ filter[c].date = NoDate \/ view[c][e].date = filter[c].date
    /\ Occurs(filter[c].location, view[c][e].location)

C17_ViewProjection ==
    \A c \in Clients :
        LET passing == { e \in listed(c) : Passes(c, e) } IN
        /\ displayedEvents(c, "all")
              = { e \in passing : view[c][e].status = "approved" }
        /\ displayedEvents(c, "myEvents")
              = { e \in passing : view[c][e].creatorId = currentUser[c] }
        /\ displayedEvents(c, "myRegistrations")
              = { e \in passing : Member(view[c][e].attendees, currentUser[c]) }
        /\ isAdmin[c] => displayedEvents(c, "adminPending")
                            = { e \in passing : view[c][e].status = "pending" }
        /\ ~isAdmin[c] => displayedEvents(c, "adminPending") = {}

\* an admin holds a pending event that another user created and that the
\* admin registered for, and has typed a location filter that matches in
\* another case: the admin tab and the tab of registrations show the
\* event, the other two tabs show nothing
C17_Witness ==
    \E c \in Clients : \E e \in EventIds :
        /\ isAdmin[c]
        /\ view[c][e].exists
        /\ view[c][e].status = "pending"
        /\ filter[c].location # NoText
        /\ displayedEvents(c, "all") = {}
        /\ displayedEvents(c, "myEvents") = {}
        /\ displayedEvents(c, "myRegistrations") = {e}
        /\ displayedEvents(c, "adminPending") = {e}

-----------------------------------------------------------------------------
(* C18: if the store's event collection stops changing, every subscribed   *)
(* client eventually holds, and keeps, an events list equal to it.         *)

C18_SubscriptionConverges ==
    \/ []<><< events' # events >>_vars
    \/ <>[](\A c \in Clients : view[c] = events)

\* an event created by another client's user has been delivered to a
\* client, whose list equals the store's collection
C18_Witness ==
    \E c \in Clients : \E e \in EventIds :
        /\ view[c] = events
        /\ view[c][e].exists
        /\ currentUser[c] # NoUser
        /\ view[c][e].creatorId # currentUser[c]

-----------------------------------------------------------------------------
(* C20: in register the Registration-record write is attempted only after  *)
(* the attendee-list update has been committed, and a rejected record      *)
(* write does not roll the update back: the registrant stays in the        *)
(* attendee list and no Registration record is created.                    *)

C20_WriteOrderStep ==
    \A c \in Clients :
        /\ (pc[c] = "reg_update" /\ pc'[c] = "reg_setDoc")
              => /\ events'[op[c].eventId].attendees
                      = Append(op[c].currentAttendees, op[c].userId)
                 /\ registrations' = registrations
        /\ (registrations' # registrations
               /\ pc[c] \in {"idle", "reg_getDoc", "reg_update"})
              => pc'[c] = pc[c]
        /\ RegisterSetDoc(c, FALSE)
              => /\ events' = events
                 /\ registrations' = registrations
                 /\ message' = Say(c, "ErrorRegistering")

C20_UpdateBeforeRecord == [][C20_WriteOrderStep]_vars

\* a register whose record write was rejected: its user is the one
\* attendee of the event, and there is no Registration record at all
C20_Witness ==
    \E c \in Clients : \E e \in EventIds : \E u \in Users :
        /\ message = Say(c, "ErrorRegistering")
        /\ AllIdle
        /\ exists(e)
        /\ attendeesOf(e) = << u >>
        /\ registrations = {}

-----------------------------------------------------------------------------
(* C21: in cancel the Registration-record delete is attempted only after   *)
(* the removal from the attendee list has been committed, and a rejected   *)
(* delete does not roll the removal back: the registrant is absent from    *)
(* the attendee list while the Registration record still exists.           *)

C21_WriteOrderStep ==
    \A c \in Clients :
        /\ (pc[c] = "can_update" /\ pc'[c] = "can_deleteDoc")
              => /\ events'[op[c].eventId].attendees
                      = filterOut(op[c].currentAttendees, op[c].userId)
                 /\ ~Member(events'[op[c].eventId].attendees, op[c].userId)
                 /\ registrations' = registrations
        /\ (registrations' # registrations
               /\ pc[c] \in {"idle", "can_getDoc", "can_update"})
              => pc'[c] = pc[c]
        /\ CancelDeleteDoc(c, FALSE)
              => /\ events' = events
                 /\ registrations' = registrations
                 /\ message' = Say(c, "ErrorCancelling")

C21_RemovalBeforeDelete == [][C21_WriteOrderStep]_vars

\* a cancel whose record delete was rejected: the attendee list is empty
\* and the Registration record of the user who cancelled is still there
C21_Witness ==
    \E c \in Clients : \E e \in EventIds : \E u \in Users :
        /\ message = Say(c, "ErrorCancelling")
        /\ AllIdle
        /\ exists(e)
        /\ attendeesOf(e) = << >>
        /\ registrations = { << u, e >> }

-----------------------------------------------------------------------------
(* C22: an edit changes only the form's fields (capacity and date are the  *)
(* ones that vary in the model) and leaves status, attendees and creatorId *)
(* as they were; the write of approve and reject changes only status and   *)
(* leaves every other field, attendees included, as it was.  No other      *)
(* document is touched.                                                    *)

\* the step leaves the fields of event e outside `fields`, the other
\* events and the Registration records as they were
Untouched(e, fields) ==
    /\ \A f \in DOMAIN NoDoc \ fields : events'[e][f] = events[e][f]
    /\ \A g \in EventIds \ {e} : events'[g] = events[g]
    /\ registrations' = registrations

C22_FrameStep ==
    \A e \in EventIds :
        /\ (\E c \in Clients, ok \in BOOLEAN :
               SaveUpdateDoc(c, ok) /\ op[c].eventId = e)
              => Untouched(e, {"capacity", "date", "location"})
        /\ ( \/ \E s \in {"approved", "rejected"} : OutOfBandStatus(e, s)
             \/ \E c \in Clients, ok \in BOOLEAN :
                   ModerateUpdateDoc(c, ok) /\ op[c].eventId = e )
              => Untouched(e, {"status"})

C22_EditAndModerationFrame == [][C22_FrameStep]_vars

\* an event with attendees has been rejected and has been edited: the
\* attendees remain and the status is the one that was written
C22_Witness ==
    \E c \in Clients : \E e \in EventIds :
        /\ message = Say(c, "Updated")
        /\ exists(e)
        /\ events[e].status = "rejected"
        /\ attendeesOf(e) # << >>

-----------------------------------------------------------------------------
(* C23: the attendee list of an event holds each identity at most once,    *)
(* under any interleaving of register and cancel calls, the same identity  *)
(* registering concurrently from two clients included.                     *)

C23_NoDuplicateAttendee ==
    \A e \in EventIds :
        exists(e) =>
            \A i, j \in 1..Len(attendeesOf(e)) :
                attendeesOf(e)[i] = attendeesOf(e)[j] => i = j

\* two clients of one identity both read the list without it and both
\* committed their update: the list holds the identity once
C23_Witness ==
    \E c, d \in Clients : \E e \in EventIds :
        /\ c # d
        /\ op[c].userId = op[d].userId
        /\ pc[c] = "reg_setDoc" /\ pc[d] = "reg_setDoc"
        /\ op[c].eventId = e /\ op[d].eventId = e
        /\ ~Member(op[c].currentAttendees, op[c].userId)
        /\ ~Member(op[d].currentAttendees, op[d].userId)
        /\ exists(e)
        /\ Member(attendeesOf(e), op[c].userId)

-----------------------------------------------------------------------------
(* C24: a card that offers registration shows its event as full exactly    *)
(* when the attendee count equals the capacity; for an approved event that *)
(* is not past and whose attendee count equals the capacity, a user who is *)
(* not registered has no enabled register control, and the event is still  *)
(* listed in the view.                                                     *)

C24_FullExactlyAtCapacity ==
    \A c \in Clients : \A e \in listed(c) :
        /\ (showsRegister(c, e) \/ shownFull(c, e))
              => (shownFull(c, e)
                     <=> Len(view[c][e].attendees) = view[c][e].capacity)
        /\ ( /\ view[c][e].status = "approved"
             /\ ~isPastEvent(view[c][e].date)
             /\ Len(view[c][e].attendees) = view[c][e].capacity
             /\ ~Member(view[c][e].attendees, currentUser[c])
             /\ filter[c] = NoFilter )
              => /\ ~showsRegister(c, e)
                 /\ shownFull(c, e)
                 /\ e \in displayedEvents(c, "all")

-----------------------------------------------------------------------------
(* C25: once register has reported success for identity A, A is in the     *)
(* attendee list of the event (until A cancels or the event is deleted):   *)
(* no registration is lost to a concurrent writer. Stated at the step that *)
(* reports the success, for an identity signed in on one client only.      *)

C25_RegisteredStep ==
    \A c \in Clients :
        ( /\ RegisterSetDoc(c, TRUE)
          /\ \A d \in Clients \ {c} :
                op[c].userId \notin {currentUser[d], op[d].userId, confirm[d].userId}
          /\ events'[op[c].eventId].exists )
           => Member(events'[op[c].eventId].attendees, op[c].userId)

C25_RegistrationNotLost == [][C25_RegisteredStep]_vars

-----------------------------------------------------------------------------
(* C26: once cancel has reported success for identity A, A is absent from  *)
(* the attendee list of the event (until A registers again): a concurrent  *)
(* writer never puts a cancelled registrant back. Stated at the step that  *)
(* reports the success, for an identity signed in on one client only.      *)

C26_CancelledStep ==
    \A c \in Clients :
        ( /\ CancelDeleteDoc(c, TRUE)
          /\ \A d \in Clients \ {c} :
                op[c].userId \notin {currentUser[d], op[d].userId, confirm[d].userId}
          /\ events'[op[c].eventId].exists )
           => ~Member(events'[op[c].eventId].attendees, op[c].userId)

C26_CancellationNotUndone == [][C26_CancelledStep]_vars

-----------------------------------------------------------------------------
(* C28: a creator's edit preserves the capacity invariant, an edit that    *)
(* lowers the capacity below the current attendee count included: after    *)
(* the edit is saved the attendee count is at most the capacity.           *)

C28_EditStep ==
    \A c \in Clients : \A e \in EventIds :
        ( /\ SaveUpdateDoc(c, TRUE)
          /\ op[c].eventId = e
          /\ events'[e].exists )
           => Len(events'[e].attendees) <= events'[e].capacity

C28_EditKeepsCapacityInvariant == [][C28_EditStep]_vars

=============================================================================
